---- MODULE Spec2Model ----
(***************************************************************************)
(* A model of lumin's ModelBuilder (lumin/nn/models/model_builder.py):     *)
(* the resolution of the loss, the model hyperparameters and the optimiser *)
(* hyperparameters at construction, the dense blocks, the head/body/tail   *)
(* composition and the optimisers built from the stored hyperparameters.   *)
(*                                                                         *)
(* Python strings are sequences of one-character strings, so that          *)
(* str.lower() and the `in` substring test are computed, not assumed.      *)
(* Python values of type Any are tagged records ([int |-> 3],              *)
(* [str |-> <<"a">>], [bool |-> TRUE], [none |-> TRUE], [obj |-> "..."]).  *)
(* A Python dict is the sequence of its items in insertion order.  Dicts   *)
(* that are shared by reference live in `heap`, under their reference.     *)
(***************************************************************************)
EXTENDS Integers, Sequences, FiniteSets, TLC

VARIABLES
    heap,        \* the dict objects: reference -> dict
    builders,    \* builder id -> the fields of that ModelBuilder instance
    optimizers,  \* the optimiser instances built so far, in order of creation
    last,        \* the outcome of the most recent call
    hist,        \* builder id -> the opt_args given to the constructor, the last set_lr value
    caller       \* the values the calling program passes


----------------------------------------------------------------------------
(* Python values *)

IntV(i)  == [int |-> i]
StrV(s)  == [str |-> s]
BoolV(b) == [bool |-> b]
NoneV    == [none |-> TRUE]
ObjV(o)  == [obj |-> o]

IsNone(v) == "none" \in DOMAIN v

\* bool(v), as used by `if self.bn` and `if self.do`
Truthy(v) ==
    IF "int" \in DOMAIN v THEN v.int # 0
    ELSE IF "bool" \in DOMAIN v THEN v.bool
    ELSE IF "str" \in DOMAIN v THEN Len(v.str) > 0
    ELSE IF "none" \in DOMAIN v THEN FALSE
    ELSE TRUE

----------------------------------------------------------------------------
(* Strings *)

Uppers == <<"A","B","C","D","E","F","G","H","I","J","K","L","M",
            "N","O","P","Q","R","S","T","U","V","W","X","Y","Z">>
Lowers == <<"a","b","c","d","e","f","g","h","i","j","k","l","m",
            "n","o","p","q","r","s","t","u","v","w","x","y","z">>

\* the lower-case letter of each upper-case letter
LowerOf ==
    [c \in {Uppers[i] : i \in DOMAIN Uppers} |->
        Lowers[CHOOSE i \in DOMAIN Uppers : Uppers[i] = c]]

LowerChar(c) == IF c \in DOMAIN LowerOf THEN LowerOf[c] ELSE c

\* str.lower()
Lower(s) == [i \in DOMAIN s |-> LowerChar(s[i])]

\* sub in s
Contains(sub, s) ==
    \E i \in 0..(Len(s) - Len(sub)) : SubSeq(s, i + 1, i + Len(sub)) = sub

s_auto       == <<"a","u","t","o">>
s_class      == <<"c","l","a","s","s">>
s_multi      == <<"m","u","l","t","i">>
s_width      == <<"w","i","d","t","h">>
s_depth      == <<"d","e","p","t","h">>
s_do         == <<"d","o">>
s_bn         == <<"b","n">>
s_act        == <<"a","c","t">>
s_res        == <<"r","e","s">>
s_dense      == <<"d","e","n","s","e">>
s_relu       == <<"r","e","l","u">>
s_selu       == <<"s","e","l","u">>
s_linear     == <<"l","i","n","e","a","r">>
s_sigmoid    == <<"s","i","g","m","o","i","d">>
s_logsoftmax == <<"l","o","g","s","o","f","t","m","a","x">>
s_opt        == <<"o","p","t">>
s_adam       == <<"a","d","a","m">>
s_sgd        == <<"s","g","d">>
s_lr         == <<"l","r">>

----------------------------------------------------------------------------
(* Dicts: sequences of items [k |-> key, v |-> value] with distinct keys *)

DictHas(d, k) == \E i \in DOMAIN d : d[i].k = k

DictGet(d, k) == d[CHOOSE i \in DOMAIN d : d[i].k = k].v

\* d[k] = v: an existing key keeps its position, a new key goes last
DictSet(d, k, v) ==
    IF DictHas(d, k)
    THEN [i \in DOMAIN d |-> IF d[i].k = k THEN [k |-> k, v |-> v] ELSE d[i]]
    ELSE Append(d, [k |-> k, v |-> v])

\* {k.lower(): d[k] for k in d}
RECURSIVE LowerKeys(_)
LowerKeys(d) ==
    IF d = <<>> THEN <<>>
    ELSE LET n == Len(d)
         IN  DictSet(LowerKeys(SubSeq(d, 1, n - 1)), Lower(d[n].k), d[n].v)

\* {k: d[k] for k in d if k != key}
DictWithout(d, key) ==
    LET keep(e) == e.k # key IN SelectSeq(d, keep)

\* d[k] if k in d else dflt
DictGetOr(d, k, dflt) == IF DictHas(d, k) THEN DictGet(d, k) ELSE dflt

----------------------------------------------------------------------------
(* The loss argument.  The default is the literal 'auto' of the signature;   *)
(* `loss is 'auto'` is an identity test, true of that literal's object and   *)
(* false of an equal string that is another object.                          *)

AutoLiteral == [str |-> s_auto, literal |-> TRUE]
AutoCopy    == [str |-> s_auto, literal |-> FALSE]

IsAutoLiteral(loss) == "literal" \in DOMAIN loss /\ loss.str = s_auto /\ loss.literal

NLLLoss == ObjV("NLLLoss")
BCELoss == ObjV("BCELoss")
MSELoss == ObjV("MSELoss")

\* parse_loss that derives the loss from the objective whatever loss is passed
parse_loss_derived(objective, n_out, loss) ==
    IF Contains(s_class, objective)
    THEN IF n_out > 1 /\ Contains(s_multi, objective) THEN NLLLoss ELSE BCELoss
    ELSE MSELoss

\* ModelBuilder.parse_loss: the value of self.loss
parse_loss(objective, n_out, loss) ==
    IF IsAutoLiteral(loss)
    THEN IF Contains(s_class, objective)
         THEN IF n_out > 1 /\ Contains(s_multi, objective) THEN NLLLoss ELSE BCELoss
         ELSE MSELoss
    ELSE loss

\* parse_model_args that looks the keys up as they were written
parse_model_args_cased(model_args) ==
    LET m == model_args
    IN  [width |-> DictGetOr(m, s_width, IntV(100)),
         depth |-> DictGetOr(m, s_depth, IntV(4)),
         do    |-> DictGetOr(m, s_do, IntV(0)),
         bn    |-> DictGetOr(m, s_bn, BoolV(FALSE)),
         act   |-> IF DictHas(m, s_act) THEN StrV(Lower(DictGet(m, s_act).str))
                   ELSE StrV(s_relu),
         res   |-> DictGetOr(m, s_res, BoolV(FALSE)),
         dense |-> DictGetOr(m, s_dense, BoolV(FALSE))]

\* ModelBuilder.parse_model_args: the fields it sets
parse_model_args(model_args) ==
    LET m == LowerKeys(model_args)
    IN  [width |-> DictGetOr(m, s_width, IntV(100)),
         depth |-> DictGetOr(m, s_depth, IntV(4)),
         do    |-> DictGetOr(m, s_do, IntV(0)),
         bn    |-> DictGetOr(m, s_bn, BoolV(FALSE)),
         act   |-> IF DictHas(m, s_act) THEN StrV(Lower(DictGet(m, s_act).str))
                   ELSE StrV(s_relu),
         res   |-> DictGetOr(m, s_res, BoolV(FALSE)),
         dense |-> DictGetOr(m, s_dense, BoolV(FALSE))]

\* parse_opt_args that lower-cases the optimiser's name before testing it
parse_opt_args_anycase(h, ref, fresh) ==
    LET o   == LowerKeys(h[ref])
        opt == DictGetOr(o, s_opt, StrV(s_adam))
        low == StrV(Lower(opt.str))
    IN  IF low \notin {StrV(s_adam), StrV(s_sgd)}
        THEN [raised |-> "ValueError", opt |-> opt, heap |-> h, opt_args |-> 0]
        ELSE [raised |-> "none", opt |-> low,
              heap |-> (fresh :> DictWithout(o, s_opt)) @@ h, opt_args |-> fresh]

\* parse_opt_args that forwards the items under the keys as they were written
parse_opt_args_verbatim(h, ref, fresh) ==
    LET o   == LowerKeys(h[ref])
        opt == DictGetOr(o, s_opt, StrV(s_adam))
    IN  IF opt \notin {StrV(s_adam), StrV(s_sgd)}
        THEN [raised |-> "ValueError", opt |-> opt, heap |-> h, opt_args |-> 0]
        ELSE [raised |-> "none", opt |-> opt,
              heap |-> (fresh :> DictWithout(h[ref], s_opt)) @@ h, opt_args |-> fresh]

\* parse_opt_args that keeps the dict it was given instead of making its own
parse_opt_args_alias(h, ref, fresh) ==
    LET o   == LowerKeys(h[ref])
        opt == DictGetOr(o, s_opt, StrV(s_adam))
    IN  IF opt \notin {StrV(s_adam), StrV(s_sgd)}
        THEN [raised |-> "ValueError", opt |-> opt, heap |-> h, opt_args |-> 0]
        ELSE [raised |-> "none", opt |-> opt,
              heap |-> [h EXCEPT ![ref] = DictWithout(o, s_opt)], opt_args |-> ref]

\* ModelBuilder.parse_opt_args on the dict h[ref]: either it raises, or it sets
\* self.opt and makes self.opt_args a new dict, whose reference is fresh
parse_opt_args(h, ref, fresh) ==
    LET o   == LowerKeys(h[ref])
        opt == DictGetOr(o, s_opt, StrV(s_adam))
    IN  IF opt \notin {StrV(s_adam), StrV(s_sgd)}
        THEN [raised |-> "ValueError", opt |-> opt, heap |-> h, opt_args |-> 0]
        ELSE [raised |-> "none", opt |-> opt,
              heap |-> (fresh :> DictWithout(o, s_opt)) @@ h, opt_args |-> fresh]

----------------------------------------------------------------------------
(* Modules.  A layer is a record; a Sequential is the sequence of its parts. *)
(* The collaborators (body, lookup_init, lookup_act) are external: a call    *)
(* to one is recorded with its arguments, in the order the calls are made.   *)

Linear(fan_in, fan_out, init_for) ==
    [layer |-> "Linear", fan_in |-> fan_in, fan_out |-> fan_out, init |-> init_for]
Activation(act)  == [layer |-> "Activation", act |-> act]
BatchNorm1d(n)   == [layer |-> "BatchNorm1d", n |-> n]
Dropout(p)       == [layer |-> "Dropout", p |-> p]
AlphaDropout(p)  == [layer |-> "AlphaDropout", p |-> p]

Call(fn, args) == [fn |-> fn, args |-> args]

\* get_dense that uses the standard dropout for every activation
get_dense_dropout(self, fan_in_arg, fan_out_arg, act_arg, last_layer) ==
    LET fan_in  == IF IsNone(fan_in_arg)  THEN self.width ELSE fan_in_arg
        fan_out == IF IsNone(fan_out_arg) THEN self.width ELSE fan_out_arg
        act     == IF IsNone(act_arg)     THEN self.act   ELSE act_arg
        l1 == <<Linear(fan_in, fan_out, <<act, fan_in, fan_out>>)>>
        l2 == IF act # StrV(s_linear) THEN Append(l1, Activation(act)) ELSE l1
        l3 == IF Truthy(self.bn) /\ ~last_layer THEN Append(l2, BatchNorm1d(fan_out)) ELSE l2
        l4 == IF Truthy(self.do) /\ ~last_layer THEN Append(l3, Dropout(self.do)) ELSE l3
    IN  [ret   |-> l4,
         calls |-> <<Call("lookup_init", <<act, fan_in, fan_out>>)>> \o
                   (IF act # StrV(s_linear) THEN <<Call("lookup_act", <<act>>)>> ELSE <<>>)]

\* ModelBuilder.get_dense: the Sequential it returns and the calls it makes
get_dense(self, fan_in_arg, fan_out_arg, act_arg, last_layer) ==
    LET fan_in  == IF IsNone(fan_in_arg)  THEN self.width ELSE fan_in_arg
        fan_out == IF IsNone(fan_out_arg) THEN self.width ELSE fan_out_arg
        act     == IF IsNone(act_arg)     THEN self.act   ELSE act_arg
        l1 == <<Linear(fan_in, fan_out, <<act, fan_in, fan_out>>)>>
        l2 == IF act # StrV(s_linear) THEN Append(l1, Activation(act)) ELSE l1
        l3 == IF Truthy(self.bn) /\ ~last_layer THEN Append(l2, BatchNorm1d(fan_out)) ELSE l2
        l4 == IF Truthy(self.do) /\ ~last_layer
              THEN IF act = StrV(s_selu)
                   THEN Append(l3, AlphaDropout(self.do))
                   ELSE Append(l3, Dropout(self.do))
              ELSE l3
    IN  [ret   |-> l4,
         calls |-> <<Call("lookup_init", <<act, fan_in, fan_out>>)>> \o
                   (IF act # StrV(s_linear) THEN <<Call("lookup_act", <<act>>)>> ELSE <<>>)]

\* ModelBuilder.get_head
get_head(self) == get_dense(self, IntV(self.n_in), NoneV, NoneV, FALSE)

\* ModelBuilder.get_body: the call made to the injected body builder
get_body(self, depth) ==
    Call("body", <<depth, self.width, self.do, self.bn, self.act, self.res, self.dense>>)

\* ModelBuilder.get_tail
get_tail(self, n_in) ==
    IF Contains(s_class, self.objective)
    THEN IF Contains(s_multi, self.objective)
         THEN get_dense(self, n_in, IntV(self.n_out), StrV(s_logsoftmax), TRUE)
         ELSE get_dense(self, n_in, IntV(self.n_out), StrV(s_sigmoid), TRUE)
    ELSE get_dense(self, n_in, IntV(self.n_out), StrV(s_linear), TRUE)

\* build_model that sizes the tail by the configured width
build_model_width(self, bdy) ==
    LET head == get_head(self)
        body == get_body(self, IntV(self.depth.int - 1))
        c1   == head.calls \o <<body>>
    IN  IF ~bdy.has_get_out_size /\ bdy.params = <<>>
        THEN [raised |-> "ValueError", calls |-> c1, ret |-> NoneV]
        ELSE LET tail == get_tail(self, self.width)
             IN  [raised |-> "none", calls |-> c1 \o tail.calls,
                  ret |-> <<head.ret, bdy, tail.ret>>]

\* ModelBuilder.build_model, where bdy is the module the body builder returns:
\* whether it has get_out_size, what that returns, and the lengths of its
\* parameters.  Unpacking `*_, last` from no parameters raises ValueError.
build_model(self, bdy) ==
    LET head == get_head(self)
        body == get_body(self, IntV(self.depth.int - 1))
        c1   == head.calls \o <<body>>
    IN  IF ~bdy.has_get_out_size /\ bdy.params = <<>>
        THEN [raised |-> "ValueError", calls |-> c1, ret |-> NoneV]
        ELSE LET out_size == IF bdy.has_get_out_size THEN bdy.out_size
                             ELSE bdy.params[Len(bdy.params)]
                 tail == get_tail(self, IntV(out_size))
             IN  [raised |-> "none", calls |-> c1 \o tail.calls,
                  ret |-> <<head.ret, bdy, tail.ret>>]

\* build_opt that hands the optimiser the builder's own dict
build_opt_shared(self, h, fresh) ==
    [heap |-> h,
     opt  |-> [kind     |-> IF self.opt = StrV(s_adam) THEN "Adam" ELSE "SGD",
               defaults |-> self.opt_args]]

\* ModelBuilder.build_opt: the optimiser gets the hyperparameters by keyword
\* unpacking, that is in a dict of its own, whose reference is fresh
build_opt(self, h, fresh) ==
    [heap |-> (fresh :> h[self.opt_args]) @@ h,
     opt  |-> [kind     |-> IF self.opt = StrV(s_adam) THEN "Adam" ELSE "SGD",
               defaults |-> fresh]]

----------------------------------------------------------------------------
(* The caller.  `caller` holds the values the calling program passes: the    *)
(* constructor's objective, n_in, n_out, model_args, loss and body, and the  *)
(* arguments of its direct get_dense calls.  heap[DefaultOptArgs] is the     *)
(* dict that is the default of the opt_args parameter, shared by every call  *)
(* that omits it; heap[UserOptArgs] is the caller's own opt_args dict.       *)

vars == <<heap, builders, optimizers, last, hist, caller>>

DefaultOptArgs == 1
UserOptArgs    == 2

NumBuilders == 2   \* builder instances (SpecShared uses them all, the others the first)
MaxOpts     == 1   \* optimiser instances built in one behaviour
MaxLr       == 2   \* the learning rates passed to set_lr are 1..MaxLr

Builders == 1..NumBuilders

\* the references of the dicts made for builder b and for the i-th optimiser
SelfOptArgs(b)  == UserOptArgs + b
OptDefaults(i)  == UserOptArgs + NumBuilders + i

\* What the injected body builder returns for the arguments of one call: a
\* module that has get_out_size or not, the width it reports, and the lengths
\* of its parameters (per_layer parameters for each of its depth layers).
body(kind, args) ==
    [has_get_out_size |-> kind.has_get_out_size,
     out_size         |-> kind.out,
     params           |-> [i \in 1..(kind.per_layer * args[1].int) |-> kind.out]]

Outcome(op, b, raised, calls, ret) ==
    [op |-> op, b |-> b, raised |-> raised, calls |-> calls, ret |-> ret]

\* ModelBuilder.__init__(objective, n_in, n_out, model_args, opt_args, loss, body)
\* with opt_args the dict heap[opt_ref]
Construct(b, opt_ref) ==
    /\ builders[b].status = "none"
    /\ LET objective == Lower(caller.objective)
           loss      == parse_loss(objective, caller.n_out, caller.loss)
           m         == parse_model_args(caller.model_args)
           o         == parse_opt_args(heap, opt_ref, SelfOptArgs(b))
       IN  /\ IF o.raised # "none"
              THEN /\ builders' = [builders EXCEPT ![b] = [status |-> "failed"]]
                   /\ heap' = heap
              ELSE /\ builders' = [builders EXCEPT ![b] =
                          [status |-> "ok", objective |-> objective,
                           n_in |-> caller.n_in, n_out |-> caller.n_out,
                           body |-> caller.body, loss |-> loss,
                           width |-> m.width, depth |-> m.depth, do |-> m.do,
                           bn |-> m.bn, act |-> m.act, res |-> m.res,
                           dense |-> m.dense, opt |-> o.opt, opt_args |-> o.opt_args]]
                   /\ heap' = o.heap
           /\ last' = Outcome("init", b, o.raised, <<>>, NoneV)
    /\ hist' = [hist EXCEPT ![b] = [opt_ref |-> opt_ref, opt_config |-> heap[opt_ref],
                                    lr |-> NoneV]]
    /\ UNCHANGED <<optimizers, caller>>

\* ModelBuilder.set_lr(lr)
SetLr(b, lr) ==
    /\ builders[b].status = "ok"
    /\ heap' = [heap EXCEPT ![builders[b].opt_args] = DictSet(@, s_lr, lr)]
    /\ hist' = [hist EXCEPT ![b].lr = lr]
    /\ last' = Outcome("set_lr", b, "none", <<>>, NoneV)
    /\ UNCHANGED <<builders, optimizers, caller>>

\* ModelBuilder.build_opt(model)
BuildOpt(b) ==
    /\ builders[b].status = "ok"
    /\ Len(optimizers) < MaxOpts
    /\ LET o == build_opt(builders[b], heap, OptDefaults(Len(optimizers) + 1))
       IN  /\ heap' = o.heap
           /\ optimizers' = Append(optimizers, [b |-> b] @@ o.opt)
           /\ last' = Outcome("build_opt", b, "none", <<>>, IntV(Len(optimizers) + 1))
    /\ UNCHANGED <<builders, hist, caller>>

\* the module the body builder returns to build_model
BodyOf(self) == body(self.body, get_body(self, IntV(self.depth.int - 1)).args)

\* ModelBuilder.build_model()
BuildModel(b) ==
    /\ builders[b].status = "ok"
    /\ LET r == build_model(builders[b], BodyOf(builders[b]))
       IN  last' = Outcome("build_model", b, r.raised, r.calls, r.ret)
    /\ UNCHANGED <<heap, builders, optimizers, hist, caller>>

\* ModelBuilder.get_model()
GetModel(b) ==
    /\ builders[b].status = "ok"
    /\ Len(optimizers) < MaxOpts
    /\ LET r == build_model(builders[b], BodyOf(builders[b]))
           o == build_opt(builders[b], heap, OptDefaults(Len(optimizers) + 1))
       IN  IF r.raised # "none"
           THEN /\ last' = Outcome("get_model", b, r.raised, r.calls, NoneV)
                /\ UNCHANGED <<heap, optimizers>>
           ELSE /\ heap' = o.heap
                /\ optimizers' = Append(optimizers, [b |-> b] @@ o.opt)
                /\ last' = Outcome("get_model", b, "none", r.calls,
                                   [model |-> r.ret, opt |-> Len(optimizers) + 1,
                                    loss |-> builders[b].loss])
    /\ UNCHANGED <<builders, hist, caller>>

\* a direct call ModelBuilder.get_dense(fan_in, fan_out, act, last_layer)
GetDense(b) ==
    /\ builders[b].status = "ok"
    /\ LET r == get_dense(builders[b], caller.fan_in, caller.fan_out, caller.act,
                          caller.last_layer)
       IN  last' = Outcome("get_dense", b, "none", r.calls, r.ret)
    /\ UNCHANGED <<heap, builders, optimizers, hist, caller>>

InitWith(callers, opt_configs) ==
    /\ caller \in callers
    /\ \E oc \in opt_configs : heap = <<<<>>, oc>>
    /\ builders = [b \in Builders |-> [status |-> "none"]]
    /\ optimizers = <<>>
    /\ last = Outcome("none", 0, "none", <<>>, NoneV)
    /\ hist = [b \in Builders |-> [opt_ref |-> 0, opt_config |-> <<>>, lr |-> NoneV]]

\* every call on one builder
Next ==
    \/ \E r \in {DefaultOptArgs, UserOptArgs} : Construct(1, r)
    \/ \E v \in 1..MaxLr : SetLr(1, IntV(v))
    \/ BuildOpt(1)
    \/ BuildModel(1)
    \/ GetModel(1)
    \/ GetDense(1)

\* several builders: their construction, set_lr and the calls that read the
\* stored hyperparameters
NextShared ==
    \/ \E b \in Builders, r \in {DefaultOptArgs, UserOptArgs} : Construct(b, r)
    \/ \E b \in Builders, v \in 1..MaxLr : SetLr(b, IntV(v))
    \/ \E b \in Builders : BuildModel(b)
    \/ \E b \in Builders : GetDense(b)

----------------------------------------------------------------------------
(* The callers and the opt_args dicts the specifications start from *)

Item(k, v) == [k |-> k, v |-> v]

\* the dicts of at most n of the given items, in every order, with distinct keys
Dicts(items, n) ==
    UNION {{d \in [1..m -> items] : \A i, j \in 1..m : i # j => d[i].k # d[j].k}
           : m \in 0..n}

MaxItems == 2   \* items in a model_args or opt_args dict

BodyReports == [has_get_out_size |-> TRUE,  out |-> 100, per_layer |-> 2]
BodyOther   == [has_get_out_size |-> TRUE,  out |-> 12,  per_layer |-> 0]
BodyPlain   == [has_get_out_size |-> FALSE, out |-> 100, per_layer |-> 2]
BodyNarrow  == [has_get_out_size |-> FALSE, out |-> 12,  per_layer |-> 1]

s_reg == <<"r","e","g">>

BaseCaller ==
    [objective |-> s_reg, n_in |-> 3, n_out |-> 1, model_args |-> <<>>,
     loss |-> AutoLiteral, body |-> BodyReports,
     fan_in |-> NoneV, fan_out |-> NoneV, act |-> NoneV, last_layer |-> FALSE]

s_OPT     == <<"O","P","T">>
s_LR      == <<"L","R">>
s_Eps     == <<"E","p","s">>
s_rmsprop == <<"r","m","s","p","r","o","p">>
s_Adam    == <<"A","d","a","m">>

(* optimiser hyperparameters: SpecOpt *)
OptItems ==
    {Item(s_opt, StrV(s_adam)), Item(s_opt, StrV(s_sgd)), Item(s_opt, StrV(s_rmsprop)),
     Item(s_OPT, StrV(s_sgd)), Item(s_OPT, StrV(s_Adam)),
     Item(s_lr, IntV(7)), Item(s_LR, IntV(8)), Item(s_Eps, IntV(9))}

OptConfigs == Dicts(OptItems, MaxItems)

InitOpt == InitWith({BaseCaller}, OptConfigs)
SpecOpt == InitOpt /\ [][Next]_vars

(* several builders sharing the caller's dict and the default dict: SpecShared *)
SharedConfigs ==
    {<<>>, <<Item(s_lr, IntV(7))>>, <<Item(s_OPT, StrV(s_sgd)), Item(s_LR, IntV(8))>>,
     <<Item(s_opt, StrV(s_rmsprop))>>}

InitShared == InitWith({BaseCaller}, SharedConfigs)
SpecShared == InitShared /\ [][NextShared]_vars

(* objectives, output sizes, losses and bodies: SpecNet *)
s_CLASS == <<"C","l","a","s","s">>
s_MULTI == <<"M","U","L","T","I">>
s_cla   == <<"c","l","a">>
s_ss    == <<"s","s">>
s_Depth == <<"D","e","p","t","h">>

Fragments  == {<<>>, s_class, s_CLASS, s_multi, s_MULTI, s_cla, s_ss}
Objectives == {a \o b : a, b \in Fragments}
NOuts      == {1, 5}
Losses     == {AutoLiteral, AutoCopy, ObjV("L1Loss")}

LossCallers ==
    {[BaseCaller EXCEPT !.objective = o, !.n_out = n, !.loss = l]
     : o \in Objectives, n \in NOuts, l \in Losses}

BodyCallers ==
    {[BaseCaller EXCEPT !.objective = o, !.n_out = 5, !.body = k, !.model_args = m]
     : o \in {s_reg, s_class, s_multi \o s_class},
       k \in {BodyReports, BodyOther, BodyPlain, BodyNarrow},
       m \in {<<>>, <<Item(s_Depth, IntV(1))>>,
              <<Item(s_width, IntV(7)), Item(s_bn, BoolV(TRUE))>>}}

InitNet == InitWith(LossCallers \cup BodyCallers, {<<>>})
SpecNet == InitNet /\ [][Next]_vars

(* model hyperparameters: SpecArgs *)
s_WIDTH == <<"W","I","D","T","H">>
s_BN    == <<"B","N">>
s_Act   == <<"A","c","t">>
s_Dense == <<"D","e","n","s","e">>
s_SELU  == <<"S","E","L","U">>
s_Tanh  == <<"T","a","n","h">>
s_foo   == <<"f","o","o">>

ModelItems ==
    {Item(s_width, IntV(7)), Item(s_WIDTH, IntV(8)), Item(s_Depth, IntV(2)),
     Item(s_do, IntV(5)), Item(s_BN, BoolV(TRUE)), Item(s_act, StrV(s_SELU)),
     Item(s_Act, StrV(s_Tanh)), Item(s_res, BoolV(TRUE)), Item(s_Dense, BoolV(TRUE)),
     Item(s_foo, IntV(1))}

ArgsCallers == {[BaseCaller EXCEPT !.model_args = m] : m \in Dicts(ModelItems, MaxItems)}

InitArgs == InitWith(ArgsCallers, {<<>>})
SpecArgs == InitArgs /\ [][Next]_vars

(* direct get_dense calls: SpecDense *)
DenseModelArgs ==
    {a \o b \o c : a \in {<<>>, <<Item(s_bn, BoolV(TRUE))>>},
                   b \in {<<>>, <<Item(s_do, IntV(5))>>},
                   c \in {<<>>, <<Item(s_act, StrV(s_SELU))>>}}

DenseCallers ==
    {[BaseCaller EXCEPT !.model_args = m, !.fan_in = fi, !.fan_out = fo, !.act = a,
                        !.last_layer = ll]
     : m \in DenseModelArgs, fi \in {NoneV, IntV(3)}, fo \in {NoneV, IntV(2)},
       a \in {NoneV, StrV(s_selu), StrV(s_SELU), StrV(s_linear), StrV(s_relu)},
       ll \in BOOLEAN}

InitDense == InitWith(DenseCallers, {<<>>})
SpecDense == InitDense /\ [][Next]_vars

----------------------------------------------------------------------------
(* Properties *)

Activations(block) ==
    {block[i].act : i \in {j \in DOMAIN block : block[j].layer = "Activation"}}

Layers(block) == {block[i].layer : i \in DOMAIN block}

Returned(op) == last.op = op /\ last.raised = "none"

\* C1: for a builder constructed with the default loss 'auto', the loss that
\* get_model returns and the activation of the tail of its model are a matching
\* pair: log-softmax with NLLLoss when the lower-cased objective contains
\* "class" and "multi" and n_out > 1, sigmoid with BCELoss for any other
\* objective containing "class", no activation with MSELoss otherwise.
C1_LossMatchesTail ==
    (Returned("get_model") /\ IsAutoLiteral(caller.loss)) =>
        LET o    == Lower(caller.objective)
            acts == Activations(last.ret.model[3])
            loss == last.ret.loss
        IN  IF Contains(s_class, o) /\ Contains(s_multi, o) /\ caller.n_out > 1
            THEN acts = {StrV(s_logsoftmax)} /\ loss = NLLLoss
            ELSE IF Contains(s_class, o)
                 THEN acts = {StrV(s_sigmoid)} /\ loss = BCELoss
                 ELSE acts = {} /\ loss = MSELoss

\* C5: when the caller passes a loss of its own, the builder's loss is that
\* object in every state after construction, whatever the objective and n_out
\* and whatever calls were made, and get_model returns it.
C5_OverrideKept ==
    \A b \in Builders :
        (builders[b].status = "ok" /\ ~IsAutoLiteral(caller.loss)) =>
            /\ builders[b].loss = caller.loss
            /\ (Returned("get_model") /\ last.b = b) => last.ret.loss = caller.loss

\* C5 witness: get_model has returned on a builder that was given a loss of its
\* own with a multi-class objective and n_out > 1, after a set_lr.
C5_Witness ==
    /\ Returned("get_model")
    /\ caller.loss = ObjV("L1Loss")
    /\ Contains(s_class, Lower(caller.objective))
    /\ Contains(s_multi, Lower(caller.objective))
    /\ caller.n_out > 1
    /\ hist[last.b].lr # NoneV
    /\ last.ret.loss = ObjV("L1Loss")

\* the output width of a body module: what get_out_size returns, or else the
\* length of its last parameter
OutWidth(bdy) ==
    IF bdy.has_get_out_size THEN bdy.out_size ELSE bdy.params[Len(bdy.params)]

\* C8: a model returned by build_model is head, body, tail in that order; the
\* head's linear layer maps n_in to the configured width; the body builder was
\* called exactly once, with depth - 1 and the configured width, do, bn, act,
\* res and dense; the tail's linear layer maps the body's output width to n_out.
C8_HeadBodyTail ==
    Returned("build_model") =>
        LET self  == builders[last.b]
            model == last.ret
            calls == {i \in DOMAIN last.calls : last.calls[i].fn = "body"}
        IN  /\ Len(model) = 3
            /\ model[1][1].layer = "Linear"
            /\ model[1][1].fan_in = IntV(caller.n_in)
            /\ model[1][1].fan_out = self.width
            /\ Cardinality(calls) = 1
            /\ \A i \in calls :
                   /\ last.calls[i].args = <<IntV(self.depth.int - 1), self.width, self.do,
                                             self.bn, self.act, self.res, self.dense>>
                   /\ model[2] = body(caller.body, last.calls[i].args)
            /\ model[3][1].layer = "Linear"
            /\ model[3][1].fan_in = IntV(OutWidth(model[2]))
            /\ model[3][1].fan_out = IntV(caller.n_out)

\* C8 witness: build_model has returned a model whose body has no get_out_size
\* and whose output width differs from the configured width.
C8_Witness ==
    /\ Returned("build_model")
    /\ ~last.ret[2].has_get_out_size
    /\ builders[last.b].width = IntV(7)
    /\ last.ret[3][1].fan_in = IntV(12)

\* C9: build_model does not raise for a body without get_out_size, a body with
\* no parameters included: it takes the tail's fan-in from the last parameter.
C9_FallbackNeverRaises ==
    (last.op = "build_model" /\ ~caller.body.has_get_out_size) => last.raised = "none"

----------------------------------------------------------------------------
(* Properties of the optimiser hyperparameters *)

Keys(d)  == {d[i].k : i \in DOMAIN d}
Items(d) == {d[i] : i \in DOMAIN d}

\* the positions of the items of cfg whose key is `key` in some letter-casing
Under(cfg, key) == {i \in DOMAIN cfg : Lower(cfg[i].k) = key}

\* the value of the last of them
LastUnder(cfg, key) ==
    cfg[CHOOSE i \in Under(cfg, key) : \A j \in Under(cfg, key) : j <= i].v

Supported == {StrV(s_adam), StrV(s_sgd)}

\* C2: constructing a builder whose opt_args name no optimiser but unsupported
\* ones raises ValueError, and the construction has called neither the body
\* builder nor lookup_init nor lookup_act, and has made no optimiser and no
\* hyperparameter dict.
C2_UnsupportedOptRaises ==
    \A b \in Builders :
        LET cfg   == hist[b].opt_config
            kinds == {cfg[i].v : i \in Under(cfg, s_opt)}
        IN  (builders[b].status # "none" /\ kinds # {} /\ kinds \cap Supported = {}) =>
                /\ builders[b].status = "failed"
                /\ last = Outcome("init", b, "ValueError", <<>>, NoneV)
                /\ optimizers = <<>>
                /\ DOMAIN heap = {DefaultOptArgs, UserOptArgs}

\* C2 witness: a construction with opt_args {'lr': 7, 'opt': 'rmsprop'} has raised.
C2_Witness ==
    /\ last.op = "init"
    /\ last.raised = "ValueError"
    /\ hist[last.b].opt_config = <<Item(s_lr, IntV(7)), Item(s_opt, StrV(s_rmsprop))>>

\* C3: an optimiser, once built, keeps its hyperparameters through every later
\* call; and an optimiser built after a set_lr has the learning rate of the
\* most recent set_lr on its builder.
C3_LrOfOptimizers ==
    [][/\ \A i \in DOMAIN optimizers :
              /\ i \in DOMAIN optimizers'
              /\ optimizers'[i] = optimizers[i]
              /\ heap'[optimizers[i].defaults] = heap[optimizers[i].defaults]
       /\ \A i \in DOMAIN optimizers' \ DOMAIN optimizers :
              LET o == optimizers'[i]
              IN  hist[o.b].lr # NoneV =>
                      /\ DictHas(heap'[o.defaults], s_lr)
                      /\ DictGet(heap'[o.defaults], s_lr) = hist[o.b].lr]_vars

\* C3 witness: a builder constructed with a learning rate of 7 had set_lr(1),
\* built an optimiser and then had set_lr(2): the optimiser has learning rate 1
\* and the builder has stored 2 for the next one.
C3_Witness ==
    /\ Len(optimizers) = 1
    /\ hist[1].opt_config = <<Item(s_lr, IntV(7))>>
    /\ DictGet(heap[optimizers[1].defaults], s_lr) = IntV(1)
    /\ last = Outcome("set_lr", 1, "none", <<>>, NoneV)
    /\ hist[1].lr = IntV(2)
    /\ DictGet(heap[builders[1].opt_args], s_lr) = IntV(2)

\* the hyperparameters a builder has stored, as C6 states them: the items of
\* opt_config other than 'opt', under their own keys, and the last set_lr value
Verbatim(b) ==
    LET d == DictWithout(hist[b].opt_config, s_opt)
    IN  IF hist[b].lr # NoneV THEN DictSet(d, s_lr, hist[b].lr) ELSE d

\* C6 as claimed: the hyperparameters stored and passed to the optimiser are the
\* items of opt_config other than 'opt', each with its original key and value,
\* and the learning rate of the last set_lr.
C6_ForwardedVerbatim ==
    \A b \in Builders :
        builders[b].status = "ok" =>
            Items(heap[builders[b].opt_args]) = Items(Verbatim(b))

\* C6 amended: the keys of opt_config are lower-cased.  The optimiser is the
\* value of the last item whose lower-cased key is 'opt' (adam when there is
\* none); the hyperparameters passed to the optimiser are the other lower-cased
\* keys, each with the value of the last item under it, and 'lr' with the value
\* of the last set_lr when there was one.
C6_ForwardedLowerCased ==
    \A b \in Builders :
        builders[b].status = "ok" =>
            LET self   == builders[b]
                cfg    == hist[b].opt_config
                stored == heap[self.opt_args]
                lr     == hist[b].lr
            IN  /\ self.opt = IF Under(cfg, s_opt) = {} THEN StrV(s_adam)
                              ELSE LastUnder(cfg, s_opt)
                /\ Keys(stored) = ({Lower(k) : k \in Keys(cfg)} \ {s_opt}) \cup
                                  (IF lr # NoneV THEN {s_lr} ELSE {})
                /\ Cardinality(Keys(stored)) = Len(stored)
                /\ \A i \in DOMAIN stored :
                       stored[i].v = IF stored[i].k = s_lr /\ lr # NoneV THEN lr
                                     ELSE LastUnder(cfg, stored[i].k)
                /\ ((Returned("build_opt") \/ Returned("get_model")) /\ last.b = b) =>
                       LET o == optimizers[Len(optimizers)]
                       IN  /\ Items(heap[o.defaults]) = Items(stored)
                           /\ o.kind = IF self.opt = StrV(s_adam) THEN "Adam" ELSE "SGD"

\* C6 witness: an optimiser has been built by a builder given
\* {'OPT': 'sgd', 'LR': 8}: it is an SGD with the one hyperparameter lr = 8.
C6_Witness ==
    /\ Returned("build_opt")
    /\ hist[last.b].opt_config = <<Item(s_OPT, StrV(s_sgd)), Item(s_LR, IntV(8))>>
    /\ optimizers[Len(optimizers)].kind = "SGD"
    /\ heap[optimizers[Len(optimizers)].defaults] = <<Item(s_lr, IntV(8))>>

\* C10: no call changes the dict that is the default of opt_args nor the
\* caller's opt_args dict; and a set_lr on one builder leaves the stored
\* hyperparameters of every other builder, and every field of every builder,
\* as they were.
C10_SetLrFrame ==
    [][/\ heap'[DefaultOptArgs] = heap[DefaultOptArgs]
       /\ heap'[UserOptArgs] = heap[UserOptArgs]
       /\ last'.op = "set_lr" =>
              /\ builders' = builders
              /\ \A c \in Builders \ {last'.b} :
                     builders[c].status = "ok" =>
                         heap'[builders[c].opt_args] = heap[builders[c].opt_args]]_vars

\* C10 witness: two builders were constructed from the caller's dict {'lr': 7};
\* after set_lr(1) on the first, the second still has lr = 7, and so has the
\* caller's dict.
C10_Witness ==
    /\ builders[1].status = "ok" /\ builders[2].status = "ok"
    /\ hist[1].opt_ref = UserOptArgs /\ hist[2].opt_ref = UserOptArgs
    /\ last = Outcome("set_lr", 1, "none", <<>>, NoneV)
    /\ heap[builders[1].opt_args] = <<Item(s_lr, IntV(1))>>
    /\ heap[builders[2].opt_args] = <<Item(s_lr, IntV(7))>>
    /\ heap[UserOptArgs] = <<Item(s_lr, IntV(7))>>

----------------------------------------------------------------------------
(* Properties of the model hyperparameters and of the dense block *)

Fields == {"width", "depth", "do", "bn", "act", "res", "dense"}

KeyOf ==
    [width |-> s_width, depth |-> s_depth, do |-> s_do, bn |-> s_bn, act |-> s_act,
     res |-> s_res, dense |-> s_dense]

DefaultOf ==
    [width |-> IntV(100), depth |-> IntV(4), do |-> IntV(0), bn |-> BoolV(FALSE),
     act |-> StrV(s_relu), res |-> BoolV(FALSE), dense |-> BoolV(FALSE)]

\* C4 as claimed: construction does not fail; a recognised key that model_args
\* has in no letter-casing takes its default, one that it has takes the value
\* supplied for it, and the other keys decide nothing.
C4_SuppliedValue ==
    \A b \in Builders :
        builders[b].status # "none" =>
            /\ builders[b].status = "ok"
            /\ \A f \in Fields :
                   LET at == Under(caller.model_args, KeyOf[f])
                   IN  IF at = {} THEN builders[b][f] = DefaultOf[f]
                       ELSE builders[b][f] \in {caller.model_args[i].v : i \in at}

\* C4 amended: construction does not fail; a recognised key that model_args has
\* in no letter-casing takes its default; one that it has takes the value of
\* the last item of model_args whose lower-cased key it is, and for 'act' that
\* value lower-cased; the other keys decide nothing.
C4_LastValueActLowered ==
    \A b \in Builders :
        builders[b].status # "none" =>
            /\ builders[b].status = "ok"
            /\ \A f \in Fields :
                   LET at == Under(caller.model_args, KeyOf[f])
                       v  == LastUnder(caller.model_args, KeyOf[f])
                   IN  builders[b][f] = IF at = {} THEN DefaultOf[f]
                                        ELSE IF f = "act" THEN StrV(Lower(v.str))
                                        ELSE v

\* C4 witness: a builder was constructed from {'foo': 1, 'act': 'SELU'}: its act
\* is 'selu' and its other fields have their defaults.
C4_Witness ==
    /\ builders[1].status = "ok"
    /\ caller.model_args = <<Item(s_foo, IntV(1)), Item(s_act, StrV(s_SELU))>>
    /\ builders[1].act = StrV(s_selu)
    /\ builders[1].width = IntV(100)
    /\ builders[1].depth = IntV(4)

At(block, layer) == {i \in DOMAIN block : block[i].layer = layer}

\* C7: a block returned by get_dense is, in this order: the linear layer from
\* fan_in to fan_out, initialised by lookup_init(act, fan_in, fan_out); the
\* activation unless act is 'linear'; and, when last_layer is false only, a
\* batch normalisation iff bn is set and a dropout iff do is nonzero, that
\* dropout being AlphaDropout iff act is 'selu' and Dropout otherwise.  The
\* tail of a model, built with last_layer true, has neither.
C7_DenseBlock ==
    /\ Returned("get_dense") =>
        LET self    == builders[last.b]
            block   == last.ret
            fan_in  == IF IsNone(caller.fan_in) THEN self.width ELSE caller.fan_in
            fan_out == IF IsNone(caller.fan_out) THEN self.width ELSE caller.fan_out
            act     == IF IsNone(caller.act) THEN self.act ELSE caller.act
            n_act   == IF act = StrV(s_linear) THEN 0 ELSE 1
            n_bn    == IF ~caller.last_layer /\ self.bn = BoolV(TRUE) THEN 1 ELSE 0
            n_do    == IF ~caller.last_layer /\ self.do # IntV(0) THEN 1 ELSE 0
            drop    == IF act = StrV(s_selu) THEN "AlphaDropout" ELSE "Dropout"
            other   == IF act = StrV(s_selu) THEN "Dropout" ELSE "AlphaDropout"
        IN  /\ Len(block) = 1 + n_act + n_bn + n_do
            /\ At(block, "Linear") = {1}
            /\ block[1].fan_in = fan_in /\ block[1].fan_out = fan_out
            /\ block[1].init = last.calls[1].args
            /\ last.calls[1] = Call("lookup_init", <<act, fan_in, fan_out>>)
            /\ At(block, "Activation") = IF n_act = 1 THEN {2} ELSE {}
            /\ \A i \in At(block, "Activation") : block[i].act = act
            /\ At(block, "BatchNorm1d") = IF n_bn = 1 THEN {2 + n_act} ELSE {}
            /\ \A i \in At(block, "BatchNorm1d") : block[i].n = fan_out
            /\ At(block, drop) = IF n_do = 1 THEN {Len(block)} ELSE {}
            /\ \A i \in At(block, drop) : block[i].p = self.do
            /\ At(block, other) = {}
    /\ Returned("build_model") => Layers(last.ret[3]) \subseteq {"Linear", "Activation"}

\* C7 witness: get_dense(act='selu', last_layer=False) on a builder with bn and
\* a dropout rate of 5 returned linear, activation, batch norm, AlphaDropout.
C7_Witness ==
    /\ Returned("get_dense")
    /\ caller.act = StrV(s_selu) /\ ~caller.last_layer
    /\ Len(last.ret) = 4
    /\ last.ret[3].layer = "BatchNorm1d"
    /\ last.ret[4] = AlphaDropout(IntV(5))

====
